---------------------------- MODULE Spec2Model ----------------------------
(***************************************************************************)
(* Model of src/js/walletStorage.js: the encrypted wallet-secret store of  *)
(* the kaswasm wallet UI.  The persistent key-value store (localStorage)   *)
(* is the state; every exported function is an action.  Strings that are   *)
(* encoded or decoded (mnemonics, passwords, blobs) are sequences of       *)
(* UTF-16 code units, byte arrays are sequences of 0..255.                 *)
(***************************************************************************)
EXTENDS Integers, Sequences, FiniteSets

(***************************************************************************)
(* Program constants (walletStorage.js:5-12).                              *)
(***************************************************************************)
WALLET_LIST_KEY == "kaspa_wallets"
MNEMONIC_PREFIX == "kaspa_mnemonic_"
SALT_LENGTH == 16
IV_LENGTH == 12
\* AES-GCM tag length in bytes: the 128-bit default of crypto.subtle when
\* the call passes no tagLength (walletStorage.js:64-68).
TAG_LENGTH == 16

(***************************************************************************)
(* Bounds of the model.                                                    *)
(***************************************************************************)
MaxRand == 1       \* crypto.getRandomValues has MaxRand outcomes per draw
MaxPending == 2    \* storeMnemonic calls suspended in encrypt at a time
MaxDraw == 2       \* outcomes per draw where two encrypt calls are compared

Filenames == {"w1", "w2"}
Networks == {"mainnet", "testnet-10"}
\* the network of a record that was given null (no network id is spelled so)
NullNetwork == "null"
\* values of new Date().toISOString(); the wall clock is not monotonic
Times == {"2026-01-01T00:00:00.000Z", "2026-01-01T00:00:00.001Z"}
AsyncTime == "2026-01-01T00:00:00.000Z"
Rands == 1..MaxRand
Draws == 1..MaxDraw
\* "pw", "wrong"
Pw == <<112, 119>>
Wrong == <<119, 114, 111, 110, 103>>
Passwords == {Pw, Wrong}
\* "", "zoo", U+FEFF "a"
Zoo == <<122, 111, 111>>
BomA == <<65279, 97>>
Mnemonics == {<< >>, Zoo, BomA}

(***************************************************************************)
(* Sequence helpers.                                                       *)
(***************************************************************************)
\* Array.prototype.slice(from, to) / Uint8Array.prototype.slice, 0-based,
\* clamped to the length as in JavaScript.
Slice(s, from, to) ==
    LET hi == IF to > Len(s) THEN Len(s) ELSE to
    IN  IF from >= hi THEN << >> ELSE SubSeq(s, from + 1, hi)

(***************************************************************************)
(* TextEncoder.encode: UTF-16 code units to UTF-8 bytes.  A surrogate pair *)
(* becomes one 4-byte sequence, a lone surrogate becomes U+FFFD.           *)
(***************************************************************************)
IsHighSurrogate(c) == c >= 55296 /\ c <= 56319
IsLowSurrogate(c) == c >= 56320 /\ c <= 57343

Utf8OfCodePoint(cp) ==
    IF cp < 128 THEN <<cp>>
    ELSE IF cp < 2048 THEN <<192 + (cp \div 64), 128 + (cp % 64)>>
    ELSE IF cp < 65536
         THEN <<224 + (cp \div 4096), 128 + ((cp \div 64) % 64), 128 + (cp % 64)>>
    ELSE <<240 + (cp \div 262144), 128 + ((cp \div 4096) % 64),
           128 + ((cp \div 64) % 64), 128 + (cp % 64)>>

RECURSIVE TextEncode(_)
TextEncode(s) ==
    IF s = << >> THEN << >>
    ELSE LET c == Head(s) IN
         IF IsHighSurrogate(c) /\ Len(s) >= 2 /\ IsLowSurrogate(s[2])
         THEN Utf8OfCodePoint(65536 + (c - 55296) * 1024 + (s[2] - 56320))
                  \o TextEncode(Tail(Tail(s)))
         ELSE IF IsHighSurrogate(c) \/ IsLowSurrogate(c)
         THEN Utf8OfCodePoint(65533) \o TextEncode(Tail(s))
         ELSE Utf8OfCodePoint(c) \o TextEncode(Tail(s))

(***************************************************************************)
(* TextDecoder.decode with the defaults of `new TextDecoder()`: UTF-8,     *)
(* fatal = false (an ill-formed sequence becomes U+FFFD) and ignoreBOM =   *)
(* false (a leading EF BB BF is consumed and not part of the result).      *)
(***************************************************************************)
IsCont(b) == b >= 128 /\ b <= 191

Utf16OfCodePoint(cp) ==
    IF cp < 65536 THEN <<cp>>
    ELSE <<55296 + ((cp - 65536) \div 1024), 56320 + ((cp - 65536) % 1024)>>

RECURSIVE Utf8Decode(_)
Utf8Decode(b) ==
    IF b = << >> THEN << >>
    ELSE LET b1 == b[1]
             n == Len(b)
         IN
         IF b1 < 128 THEN <<b1>> \o Utf8Decode(Tail(b))
         ELSE IF b1 >= 194 /\ b1 <= 223 /\ n >= 2 /\ IsCont(b[2])
         THEN <<(b1 - 192) * 64 + (b[2] - 128)>> \o Utf8Decode(Slice(b, 2, n))
         ELSE IF b1 >= 224 /\ b1 <= 239 /\ n >= 3 /\ IsCont(b[2]) /\ IsCont(b[3])
                 /\ (b1 = 224 => b[2] >= 160) /\ (b1 = 237 => b[2] <= 159)
         THEN <<(b1 - 224) * 4096 + (b[2] - 128) * 64 + (b[3] - 128)>>
                  \o Utf8Decode(Slice(b, 3, n))
         ELSE IF b1 >= 240 /\ b1 <= 244 /\ n >= 4
                 /\ IsCont(b[2]) /\ IsCont(b[3]) /\ IsCont(b[4])
                 /\ (b1 = 240 => b[2] >= 144) /\ (b1 = 244 => b[2] <= 143)
         THEN Utf16OfCodePoint((b1 - 240) * 262144 + (b[2] - 128) * 4096
                                   + (b[3] - 128) * 64 + (b[4] - 128))
                  \o Utf8Decode(Slice(b, 4, n))
         ELSE <<65533>> \o Utf8Decode(Tail(b))

HasBOM(b) == Len(b) >= 3 /\ b[1] = 239 /\ b[2] = 187 /\ b[3] = 191

TextDecode(b) == IF HasBOM(b) THEN Utf8Decode(Slice(b, 3, Len(b))) ELSE Utf8Decode(b)

(***************************************************************************)
(* btoa(String.fromCharCode(...bytes)): standard base64 with padding.      *)
(* Characters of the encoded text are ASCII codes.                         *)
(***************************************************************************)
B64Char(v) ==
    IF v < 26 THEN 65 + v
    ELSE IF v < 52 THEN 97 + (v - 26)
    ELSE IF v < 62 THEN 48 + (v - 52)
    ELSE IF v = 62 THEN 43 ELSE 47

RECURSIVE Btoa(_)
Btoa(b) ==
    IF b = << >> THEN << >>
    ELSE IF Len(b) = 1
    THEN <<B64Char(b[1] \div 4), B64Char((b[1] % 4) * 16), 61, 61>>
    ELSE IF Len(b) = 2
    THEN <<B64Char(b[1] \div 4), B64Char((b[1] % 4) * 16 + (b[2] \div 16)),
           B64Char((b[2] % 16) * 4), 61>>
    ELSE <<B64Char(b[1] \div 4), B64Char((b[1] % 4) * 16 + (b[2] \div 16)),
           B64Char((b[2] % 16) * 4 + (b[3] \div 64)), B64Char(b[3] % 64)>>
             \o Btoa(Slice(b, 3, Len(b)))

(***************************************************************************)
(* atob: the forgiving-base64 decode of the HTML standard.  ASCII          *)
(* whitespace is removed; one or two trailing "=" are removed when the     *)
(* length is a multiple of 4; a length of 1 mod 4 or any character outside *)
(* the alphabet is a failure (InvalidCharacterError); the 4 or 2 bits left *)
(* over in the last group are discarded without being inspected.           *)
(***************************************************************************)
IsB64Char(c) ==
    \/ (c >= 65 /\ c <= 90) \/ (c >= 97 /\ c <= 122)
    \/ (c >= 48 /\ c <= 57) \/ c = 43 \/ c = 47

B64Val(c) ==
    IF c >= 65 /\ c <= 90 THEN c - 65
    ELSE IF c >= 97 /\ c <= 122 THEN c - 97 + 26
    ELSE IF c >= 48 /\ c <= 57 THEN c - 48 + 52
    ELSE IF c = 43 THEN 62 ELSE 63

IsAsciiWhitespace(c) == c \in {9, 10, 12, 13, 32}

StripWhitespace(s) == SelectSeq(s, LAMBDA c : ~IsAsciiWhitespace(c))

StripPadding(s) ==
    LET n == Len(s) IN
    IF n % 4 = 0 /\ n >= 2 /\ s[n] = 61 /\ s[n - 1] = 61 THEN SubSeq(s, 1, n - 2)
    ELSE IF n % 4 = 0 /\ n >= 1 /\ s[n] = 61 THEN SubSeq(s, 1, n - 1)
    ELSE s

RECURSIVE B64Groups(_)
B64Groups(s) ==
    IF Len(s) < 2 THEN << >>
    ELSE IF Len(s) = 2
    THEN <<B64Val(s[1]) * 4 + (B64Val(s[2]) \div 16)>>
    ELSE IF Len(s) = 3
    THEN <<B64Val(s[1]) * 4 + (B64Val(s[2]) \div 16),
           (B64Val(s[2]) % 16) * 16 + (B64Val(s[3]) \div 4)>>
    ELSE <<B64Val(s[1]) * 4 + (B64Val(s[2]) \div 16),
           (B64Val(s[2]) % 16) * 16 + (B64Val(s[3]) \div 4),
           (B64Val(s[3]) % 4) * 64 + B64Val(s[4])>>
             \o B64Groups(Slice(s, 4, Len(s)))

\* [ok |-> FALSE] stands for the InvalidCharacterError that atob throws.
Atob(text) ==
    LET s == StripPadding(StripWhitespace(text)) IN
    IF Len(s) % 4 = 1 \/ (\E i \in 1..Len(s) : ~IsB64Char(s[i]))
    THEN [ok |-> FALSE, v |-> << >>]
    ELSE [ok |-> TRUE, v |-> B64Groups(s)]

(***************************************************************************)
(* The cryptographic provider (crypto.getRandomValues, crypto.subtle).     *)
(* PBKDF2 is idealised: the derived key is determined by, and determines,  *)
(* the password bytes and the salt.  AES-GCM is a keystream cipher plus a  *)
(* TAG_LENGTH-byte authentication tag over (key, iv, ciphertext), which is *)
(* its structure.  The tag is a polynomial checksum modulo the prime       *)
(* MacModulus, so a change of a single authenticated byte always changes   *)
(* it.                                                                     *)
(***************************************************************************)
MacModulus == 32749

\* crypto.getRandomValues(new Uint8Array(n)), outcome r of the generator.
RandomBytes(r, n) == [i \in 1..n |-> (r * 37 + i * 11) % 256]

RECURSIVE Mac(_, _)
Mac(h, data) ==
    IF data = << >> THEN h
    ELSE Mac((h * 31 + Head(data) + 1) % MacModulus, Tail(data))

\* deriveKey importing an empty buffer as the key material
deriveKey_NoPassword(password, salt) == [pw |-> << >>, salt |-> salt]

deriveKey(password, salt) == [pw |-> TextEncode(password), salt |-> salt]

KeyMaterial(key, iv) == key.pw \o <<256>> \o key.salt \o <<256>> \o iv

KeyStream(key, iv) == Mac(0, KeyMaterial(key, iv))

GcmTag(key, iv, ct) ==
    LET h == Mac(0, KeyMaterial(key, iv) \o <<256>> \o ct)
    IN  [j \in 1..TAG_LENGTH |->
            IF j = 1 THEN h % 256
            ELSE IF j = 2 THEN h \div 256
            ELSE (h * j) % 256]

\* crypto.subtle.encrypt({name: 'AES-GCM', iv}, key, data): ciphertext || tag
GcmEncrypt(key, iv, pt) ==
    LET ks == KeyStream(key, iv)
        ct == [i \in 1..Len(pt) |-> (pt[i] + ks + 7 * i) % 256]
    IN  ct \o GcmTag(key, iv, ct)

\* decryption by a cipher mode without authentication (AES-CTR)
GcmDecrypt_NoTag(key, iv, data) ==
    IF Len(data) < TAG_LENGTH THEN [ok |-> FALSE, v |-> << >>]
    ELSE LET ct == SubSeq(data, 1, Len(data) - TAG_LENGTH)
             ks == Mac(0, key.pw \o <<256>> \o key.salt \o <<256>> \o iv)
         IN  [ok |-> TRUE,
              v |-> [i \in 1..Len(ct) |-> (ct[i] + 256 - ((ks + 7 * i) % 256)) % 256]]

\* crypto.subtle.decrypt: rejects (OperationError) when the data is shorter
\* than the tag or the tag does not verify.
GcmDecrypt(key, iv, data) ==
    IF Len(data) < TAG_LENGTH THEN [ok |-> FALSE, v |-> << >>]
    ELSE LET ct == SubSeq(data, 1, Len(data) - TAG_LENGTH)
             tag == SubSeq(data, Len(data) - TAG_LENGTH + 1, Len(data))
             ks == KeyStream(key, iv)
         IN  IF tag # GcmTag(key, iv, ct) THEN [ok |-> FALSE, v |-> << >>]
             ELSE [ok |-> TRUE,
                   v |-> [i \in 1..Len(ct) |-> (ct[i] + 256 - ((ks + 7 * i) % 256)) % 256]]

(***************************************************************************)
(* encrypt / decrypt (walletStorage.js:54-106).  rs and ri are the         *)
(* outcomes of the two getRandomValues draws.  A result with ok = FALSE is *)
(* a rejected promise; err names the step that threw.                      *)
(***************************************************************************)
\* encrypt with a salt and an IV that are the same in every call
encrypt_FixedNonce(plaintext, password, rs, ri) ==
    LET plaintextBuffer == TextEncode(plaintext)
        salt == RandomBytes(1, SALT_LENGTH)
        iv == RandomBytes(1, IV_LENGTH)
        key == deriveKey(password, salt)
        ciphertext == GcmEncrypt(key, iv, plaintextBuffer)
        combined == salt \o iv \o ciphertext
    IN  Btoa(combined)

\* encrypt laying the blob out as iv || salt || ciphertext
encrypt_IvFirst(plaintext, password, rs, ri) ==
    LET plaintextBuffer == TextEncode(plaintext)
        salt == RandomBytes(rs, SALT_LENGTH)
        iv == RandomBytes(ri, IV_LENGTH)
        key == deriveKey(password, salt)
        ciphertext == GcmEncrypt(key, iv, plaintextBuffer)
        combined == iv \o salt \o ciphertext
    IN  Btoa(combined)

encrypt(plaintext, password, rs, ri) ==
    LET plaintextBuffer == TextEncode(plaintext)
        salt == RandomBytes(rs, SALT_LENGTH)
        iv == RandomBytes(ri, IV_LENGTH)
        key == deriveKey(password, salt)
        ciphertext == GcmEncrypt(key, iv, plaintextBuffer)
        combined == salt \o iv \o ciphertext
    IN  Btoa(combined)

decrypt(encoded, password) ==
    LET decoded == Atob(encoded) IN
    IF ~decoded.ok THEN [ok |-> FALSE, err |-> "atob", v |-> << >>]
    ELSE LET combined == decoded.v
             salt == Slice(combined, 0, SALT_LENGTH)
             iv == Slice(combined, SALT_LENGTH, SALT_LENGTH + IV_LENGTH)
             ciphertext == Slice(combined, SALT_LENGTH + IV_LENGTH, Len(combined))
             key == deriveKey(password, salt)
             plaintextBuffer == GcmDecrypt(key, iv, ciphertext)
         IN  IF ~plaintextBuffer.ok THEN [ok |-> FALSE, err |-> "decrypt", v |-> << >>]
             ELSE [ok |-> TRUE, err |-> "", v |-> TextDecode(plaintextBuffer.v)]

(***************************************************************************)
(* Memoisation.  encrypt and decrypt are deterministic in their inputs     *)
(* and the random outcomes, so their values on the inputs the operations   *)
(* draw are computed once; decrypt of any other text is computed on        *)
(* demand.                                                                 *)
(***************************************************************************)
\* <<inputs, result>> pairs, as sets
EncryptTable ==
    {<<x, encrypt(x[1], x[2], x[3], x[4])>> :
        x \in Mnemonics \X Passwords \X (Rands \cup Draws) \X (Rands \cup Draws)}

EncryptedTexts == {e[2] : e \in EncryptTable}

DecryptTable == {<<y, decrypt(y[1], y[2])>> : y \in EncryptedTexts \X Passwords}

Encrypted(m, p, rs, ri) == (CHOOSE e \in EncryptTable : e[1] = <<m, p, rs, ri>>)[2]

Decrypted(encoded, password) ==
    IF encoded \in EncryptedTexts /\ password \in Passwords
    THEN (CHOOSE d \in DecryptTable : d[1] = <<encoded, password>>)[2]
    ELSE decrypt(encoded, password)

(***************************************************************************)
(* State.                                                                  *)
(*   registry  the text persisted under WALLET_LIST_KEY, by what           *)
(*             JSON.parse makes of it: t = "absent" (no key), "empty"      *)
(*             (the empty string), "garbage" (not JSON), "array" (a is the *)
(*             list of wallet records), "null", "number", "object" (JSON,  *)
(*             but not an array)                                           *)
(*   blobs     blobs[f] is the text persisted under MNEMONIC_PREFIX + f    *)
(*   pending   the calls in flight: the storeMnemonic calls suspended at   *)
(*             `await encrypt` and, where two tabs share the store, each   *)
(*             tab's call between its registry read and its write          *)
(*   last      the call that returned or threw last: its name, the         *)
(*             arguments the results are stated with, its result, and      *)
(*             store: "ok", or what failed under the call ("quota": a      *)
(*             setItem threw, "unavailable": a getItem threw, "crypto":    *)
(*             crypto.subtle rejected); a storeMnemonic that has been      *)
(*             called and is suspended is op = "storeMnemonicCall"         *)
(***************************************************************************)
VARIABLES registry, blobs, pending, last

vars == <<registry, blobs, pending, last>>

AbsentItem == [t |-> "absent", a |-> << >>]
TextItem(chars) == [t |-> "text", a |-> chars]

\* JavaScript values returned to the caller.
JsNull == [t |-> "null", a |-> << >>]
JsUndefined == [t |-> "undefined", a |-> << >>]
JsString(chars) == [t |-> "string", a |-> chars]
JsBool(b) == [t |-> IF b THEN "true" ELSE "false", a |-> << >>]
JsArray(items) == [t |-> "array", a |-> items]

NonArrayJson == {"null", "number", "object"}

\* JSON.stringify of an array of wallet records, as persisted.
JsonStringify(wallets) == [t |-> "array", a |-> wallets]

\* JSON.parse: throws (ok = FALSE) on text that is not JSON.
JsonParse(data) ==
    IF data.t = "garbage" THEN [ok |-> FALSE, v |-> JsUndefined]
    ELSE [ok |-> TRUE, v |-> [t |-> data.t, a |-> data.a]]

\* walletStorage.js:112-120
getStoredWallets(reg) ==
    IF reg.t \in {"absent", "empty"} THEN JsArray(<< >>)
    ELSE LET parsed == JsonParse(reg) IN
         IF parsed.ok THEN parsed.v ELSE JsArray(<< >>)

\* wallets.find(w => w.filename === filename): index of the first match, 0 if none
FindIndex(items, filename) ==
    IF \E i \in 1..Len(items) : items[i].filename = filename
    THEN CHOOSE i \in 1..Len(items) :
            /\ items[i].filename = filename
            /\ \A j \in 1..(i - 1) : items[j].filename # filename
    ELSE 0

\* addWalletToList assigning the flag it is given (exists.hasMnemonic = hasMnemonic)
addWalletToList_Overwrite(reg, filename, network, hasMnemonic, time, time2) ==
    LET wallets == getStoredWallets(reg) IN
    IF wallets.t # "array" THEN [threw |-> TRUE, registry |-> reg]
    ELSE LET i == FindIndex(wallets.a, filename)
             updated ==
                 IF i # 0
                 THEN [wallets.a EXCEPT ![i] =
                          [@ EXCEPT !.network = network,
                                    !.lastUsed = time,
                                    !.hasMnemonic = hasMnemonic]]
                 ELSE Append(wallets.a,
                             [filename |-> filename, network |-> network,
                              createdAt |-> time, lastUsed |-> time2,
                              hasMnemonic |-> hasMnemonic])
         IN  [threw |-> FALSE, registry |-> JsonStringify(updated)]

\* addWalletToList without the lookup of an existing record
addWalletToList_AlwaysPush(reg, filename, network, hasMnemonic, time, time2) ==
    LET wallets == getStoredWallets(reg) IN
    IF wallets.t # "array" THEN [threw |-> TRUE, registry |-> reg]
    ELSE [threw |-> FALSE,
          registry |-> JsonStringify(Append(wallets.a,
                           [filename |-> filename, network |-> network,
                            createdAt |-> time, lastUsed |-> time2,
                            hasMnemonic |-> hasMnemonic]))]

\* addWalletToList replacing an existing record by a new one at the end
addWalletToList_Reinsert(reg, filename, network, hasMnemonic, time, time2) ==
    LET wallets == getStoredWallets(reg) IN
    IF wallets.t # "array" THEN [threw |-> TRUE, registry |-> reg]
    ELSE LET i == FindIndex(wallets.a, filename)
             others == SelectSeq(wallets.a, LAMBDA w : w.filename # filename)
             flag == IF i # 0 THEN (hasMnemonic \/ wallets.a[i].hasMnemonic)
                     ELSE hasMnemonic
         IN  [threw |-> FALSE,
              registry |-> JsonStringify(Append(others,
                               [filename |-> filename, network |-> network,
                                createdAt |-> time, lastUsed |-> time2,
                                hasMnemonic |-> flag]))]

\* walletStorage.js:128-152.  threw = TRUE is the TypeError of calling .find
\* on a value that is not an array; nothing has been written then.  time is
\* the first `new Date()` the branch taken evaluates, time2 the second one
\* of the insert branch (lines 145 and 146).
addWalletToList(reg, filename, network, hasMnemonic, time, time2) ==
    LET wallets == getStoredWallets(reg) IN
    IF wallets.t # "array" THEN [threw |-> TRUE, registry |-> reg]
    ELSE LET i == FindIndex(wallets.a, filename)
             updated ==
                 IF i # 0
                 THEN [wallets.a EXCEPT ![i] =
                          [@ EXCEPT !.network = network,
                                    !.lastUsed = time,
                                    !.hasMnemonic = IF hasMnemonic THEN TRUE ELSE @]]
                 ELSE Append(wallets.a,
                             [filename |-> filename, network |-> network,
                              createdAt |-> time, lastUsed |-> time2,
                              hasMnemonic |-> hasMnemonic])
         IN  [threw |-> FALSE, registry |-> JsonStringify(updated)]

\* removeWalletFromList without the removeItem of the blob
removeWalletFromList_KeepBlob(reg, bl, filename) ==
    LET wallets == getStoredWallets(reg) IN
    IF wallets.t # "array" THEN [threw |-> TRUE, registry |-> reg, blobs |-> bl]
    ELSE LET filtered == SelectSeq(wallets.a, LAMBDA w : w.filename # filename)
         IN  [threw |-> FALSE, registry |-> JsonStringify(filtered), blobs |-> bl]

\* removeWalletFromList by wallets.splice(wallets.findIndex(...), 1): an
\* index of -1 removes the last record
removeWalletFromList_Splice(reg, bl, filename) ==
    LET wallets == getStoredWallets(reg) IN
    IF wallets.t # "array" THEN [threw |-> TRUE, registry |-> reg, blobs |-> bl]
    ELSE LET i == FindIndex(wallets.a, filename)
             n == Len(wallets.a)
             k == IF i # 0 THEN i ELSE n
             spliced == IF n = 0 THEN << >>
                        ELSE SubSeq(wallets.a, 1, k - 1) \o SubSeq(wallets.a, k + 1, n)
         IN  [threw |-> FALSE,
              registry |-> JsonStringify(spliced),
              blobs |-> [bl EXCEPT ![filename] = AbsentItem]]

\* removeWalletFromList moving the last record into the place of the removed
\* one
removeWalletFromList_SwapRemove(reg, bl, filename) ==
    LET wallets == getStoredWallets(reg) IN
    IF wallets.t # "array" THEN [threw |-> TRUE, registry |-> reg, blobs |-> bl]
    ELSE LET i == FindIndex(wallets.a, filename)
             n == Len(wallets.a)
             swapped == IF i = 0 THEN wallets.a
                        ELSE SubSeq([wallets.a EXCEPT ![i] = wallets.a[n]], 1, n - 1)
         IN  [threw |-> FALSE,
              registry |-> JsonStringify(swapped),
              blobs |-> [bl EXCEPT ![filename] = AbsentItem]]

\* walletStorage.js:158-165.  threw = TRUE is the TypeError of calling
\* .filter on a value that is not an array; nothing has been written then.
removeWalletFromList(reg, bl, filename) ==
    LET wallets == getStoredWallets(reg) IN
    IF wallets.t # "array" THEN [threw |-> TRUE, registry |-> reg, blobs |-> bl]
    ELSE LET filtered == SelectSeq(wallets.a, LAMBDA w : w.filename # filename)
         IN  [threw |-> FALSE,
              registry |-> JsonStringify(filtered),
              blobs |-> [bl EXCEPT ![filename] = AbsentItem]]

\* storeMnemonic registering the wallet when it has no record
storeMnemonic_Push(reg, bl, filename, encrypted) ==
    LET bl2 == [bl EXCEPT ![filename] = TextItem(encrypted)]
        wallets == getStoredWallets(reg)
    IN  IF wallets.t # "array" THEN [threw |-> TRUE, registry |-> reg, blobs |-> bl2]
        ELSE LET i == FindIndex(wallets.a, filename) IN
             IF i # 0
             THEN [threw |-> FALSE,
                   registry |-> JsonStringify([wallets.a EXCEPT ![i].hasMnemonic = TRUE]),
                   blobs |-> bl2]
             ELSE [threw |-> FALSE,
                   registry |-> JsonStringify(Append(wallets.a,
                                    [filename |-> filename, network |-> "mainnet",
                                     createdAt |-> "2026-01-01T00:00:00.000Z",
                                     lastUsed |-> "2026-01-01T00:00:00.000Z",
                                     hasMnemonic |-> TRUE])),
                   blobs |-> bl2]

\* storeMnemonic writing back a registry that holds the flagged record only
storeMnemonic_DropOthers(reg, bl, filename, encrypted) ==
    LET bl2 == [bl EXCEPT ![filename] = TextItem(encrypted)]
        wallets == getStoredWallets(reg)
    IN  IF wallets.t # "array" THEN [threw |-> TRUE, registry |-> reg, blobs |-> bl2]
        ELSE LET i == FindIndex(wallets.a, filename) IN
             IF i # 0
             THEN [threw |-> FALSE,
                   registry |-> JsonStringify(<<[wallets.a[i] EXCEPT !.hasMnemonic = TRUE]>>),
                   blobs |-> bl2]
             ELSE [threw |-> FALSE, registry |-> reg, blobs |-> bl2]

\* walletStorage.js:174-185, the part after `await encrypt`.  The blob is
\* written before the registry is read, so it is persisted also when the
\* registry read-modify-write throws.
storeMnemonic(reg, bl, filename, encrypted) ==
    LET bl2 == [bl EXCEPT ![filename] = TextItem(encrypted)]
        wallets == getStoredWallets(reg)
    IN  IF wallets.t # "array" THEN [threw |-> TRUE, registry |-> reg, blobs |-> bl2]
        ELSE LET i == FindIndex(wallets.a, filename) IN
             IF i # 0
             THEN [threw |-> FALSE,
                   registry |-> JsonStringify([wallets.a EXCEPT ![i].hasMnemonic = TRUE]),
                   blobs |-> bl2]
             ELSE [threw |-> FALSE, registry |-> reg, blobs |-> bl2]

\* storeMnemonic setting the flag before it awaits encrypt
storeMnemonicRejected_FlagFirst(reg, bl, filename) ==
    LET wallets == getStoredWallets(reg)
        i == IF wallets.t = "array" THEN FindIndex(wallets.a, filename) ELSE 0
    IN  [threw |-> TRUE,
         registry |-> IF i # 0
                      THEN JsonStringify([wallets.a EXCEPT ![i].hasMnemonic = TRUE])
                      ELSE reg,
         blobs |-> bl]

\* walletStorage.js:174-175 when `await encrypt` rejects: encrypt (54-78)
\* reads and writes no key of localStorage, and the first store access of
\* storeMnemonic is the setItem of line 176, which is not reached.
storeMnemonicRejected(reg, bl, filename) ==
    [threw |-> TRUE, registry |-> reg, blobs |-> bl]

\* retrieveMnemonic without the try/catch around decrypt
retrieveMnemonic_NoCatch(bl, filename, password) ==
    LET encrypted == bl[filename] IN
    IF encrypted.t = "absent" \/ encrypted.a = << >>
    THEN [threw |-> FALSE, ret |-> JsNull]
    ELSE LET d == Decrypted(encrypted.a, password) IN
         IF d.ok THEN [threw |-> FALSE, ret |-> JsString(d.v)]
         ELSE [threw |-> TRUE, ret |-> JsUndefined]

\* walletStorage.js:193-201.  The getItem and the awaited decrypt are
\* inside the try block: whatever they throw is caught and becomes null.
retrieveMnemonic(bl, filename, password) ==
    LET encrypted == bl[filename] IN
    IF encrypted.t = "absent" \/ encrypted.a = << >>
    THEN [threw |-> FALSE, ret |-> JsNull]
    ELSE LET d == Decrypted(encrypted.a, password) IN
         IF d.ok THEN [threw |-> FALSE, ret |-> JsString(d.v)]
         ELSE [threw |-> FALSE, ret |-> JsNull]

\* hasMnemonicStored by truthiness (!!localStorage.getItem(...))
hasMnemonicStored_Truthy(bl, filename) ==
    bl[filename].t # "absent" /\ bl[filename].a # << >>

\* walletStorage.js:208-210
hasMnemonicStored(bl, filename) == bl[filename].t # "absent"

\* walletStorage.js:215-225.  threw = TRUE is the TypeError of iterating a
\* value that is not iterable; nothing has been removed then.
clearAllWalletData(reg, bl) ==
    LET wallets == getStoredWallets(reg) IN
    IF wallets.t # "array" THEN [threw |-> TRUE, registry |-> reg, blobs |-> bl]
    ELSE [threw |-> FALSE,
          registry |-> AbsentItem,
          blobs |-> [f \in DOMAIN bl |->
                        IF \E i \in 1..Len(wallets.a) : wallets.a[i].filename = f
                        THEN AbsentItem ELSE bl[f]]]

(***************************************************************************)
(* getStorageInfo (walletStorage.js:231-247) loops over every key of       *)
(* localStorage.  A key is modelled by the parts the loop tests:           *)
(* prefix ("kaspa_" or ""), kind ("mnemonic_" or "") and name; an item is  *)
(* a key with the length of its value in UTF-16 code units.                *)
(***************************************************************************)
\* .length of the strings the registry holds
StringLength(s) ==
    CASE s \in {"w1", "w2", "w3"} -> 2
      [] s = "mainnet" -> 7
      [] s = "testnet-10" -> 10
      [] OTHER -> 24

\* what the application keeps in localStorage next to the registry and the
\* blobs: 'kaspa_last_wallet' (part_003:212), and the wallet file of the
\* SDK under 'kaspa_w1.wallet' or 'w1.wallet' (blockScannerUI.js:628-633)
OtherItems ==
    {[key |-> [prefix |-> "kaspa_", kind |-> "", name |-> "last_wallet"], len |-> 2],
     [key |-> [prefix |-> "kaspa_", kind |-> "", name |-> "w1.wallet"], len |-> 300],
     [key |-> [prefix |-> "", kind |-> "", name |-> "w1.wallet"], len |-> 300]}

OtherStores == SUBSET OtherItems

\* JSON.stringify(wallets).length: brackets, commas, and per record the
\* punctuation and key names (70 code units), the four values and
\* true/false
RecordJsonLength(w) ==
    70 + StringLength(w.filename)
       + (IF w.network = NullNetwork THEN 4 ELSE StringLength(w.network) + 2)
       + StringLength(w.createdAt) + StringLength(w.lastUsed)
       + (IF w.hasMnemonic THEN 4 ELSE 5)

RECURSIVE RecordsJsonLength(_)
RecordsJsonLength(wallets) ==
    IF wallets = << >> THEN 0
    ELSE RecordJsonLength(Head(wallets)) + RecordsJsonLength(Tail(wallets))

\* the length of the text persisted under WALLET_LIST_KEY ("{" stands for
\* text that is not JSON, "42" for a number, "{}" for an object)
RegistryTextLength(reg) ==
    CASE reg.t = "array" ->
             2 + RecordsJsonLength(reg.a)
               + (IF Len(reg.a) > 1 THEN Len(reg.a) - 1 ELSE 0)
      [] reg.t = "garbage" -> 1
      [] reg.t = "null" -> 4
      [] reg.t \in {"number", "object"} -> 2
      [] OTHER -> 0

\* every key of localStorage with the length of its value
StoreItems(reg, bl, others) ==
    {[key |-> [prefix |-> "kaspa_", kind |-> "", name |-> "wallets"],
      len |-> RegistryTextLength(reg)] : x \in {reg} \ {AbsentItem}}
        \cup {[key |-> [prefix |-> "kaspa_", kind |-> "mnemonic_", name |-> f],
               len |-> Len(bl[f].a)] : f \in {g \in DOMAIN bl : bl[g] # AbsentItem}}
        \cup others

RECURSIVE TotalLength(_)
TotalLength(items) ==
    IF items = {} THEN 0
    ELSE LET x == CHOOSE y \in items : TRUE
         IN  x.len + TotalLength(items \ {x})

\* totalBytes < 1024 ? `${totalBytes} bytes` : `${(totalBytes / 1024).toFixed(2)} KB`,
\* as <<1, bytes>> or <<1024, hundredths of a KB>>; toFixed rounds to the
\* nearest hundredth, a tie upwards
FormatSize(totalBytes) ==
    IF totalBytes < 1024 THEN <<1, totalBytes>>
    ELSE <<1024, (totalBytes * 100 + 512) \div 1024>>

\* The value getStorageInfo returns: a = count \o size, where count is <<n>>
\* for walletCount n and << >> for undefined, and size is totalSize as
\* FormatSize gives it.
JsInfo(count, size) == [t |-> "info", a |-> count \o size]

\* getStorageInfo summing only the registry key and the blob keys
getStorageInfo_OwnKeys(reg, bl, others) ==
    LET wallets == getStoredWallets(reg)
        counted == StoreItems(reg, bl, {})
        size == FormatSize(TotalLength(counted) * 2)
    IN  IF wallets.t = "array"
        THEN [threw |-> FALSE, ret |-> JsInfo(<<Len(wallets.a)>>, size)]
        ELSE IF wallets.t = "null" THEN [threw |-> TRUE, ret |-> JsUndefined]
        ELSE [threw |-> FALSE, ret |-> JsInfo(<< >>, size)]

\* walletStorage.js:231-247.  The loop counts the value of every key that
\* starts with 'kaspa_' (the test for MNEMONIC_PREFIX adds none), two bytes
\* per code unit.  wallets.length is read after the loop: it throws a
\* TypeError on null and is undefined on a number or an object.
getStorageInfo(reg, bl, others) ==
    LET wallets == getStoredWallets(reg)
        counted == {x \in StoreItems(reg, bl, others) :
                       \/ x.key.prefix = "kaspa_"
                       \/ (x.key.prefix = "kaspa_" /\ x.key.kind = "mnemonic_")}
        size == FormatSize(TotalLength(counted) * 2)
    IN  IF wallets.t = "array"
        THEN [threw |-> FALSE, ret |-> JsInfo(<<Len(wallets.a)>>, size)]
        ELSE IF wallets.t = "null" THEN [threw |-> TRUE, ret |-> JsUndefined]
        ELSE [threw |-> FALSE, ret |-> JsInfo(<< >>, size)]

(***************************************************************************)
(* Initial state: an empty store, nothing in flight.                       *)
(***************************************************************************)
NoCall ==
    [op |-> "none", f |-> "", h |-> FALSE, m |-> << >>, p |-> << >>,
     threw |-> FALSE, ret |-> JsUndefined, store |-> "ok"]

Init ==
    /\ registry = AbsentItem
    /\ blobs = [f \in Filenames |-> AbsentItem]
    /\ pending = {}
    /\ last = NoCall

(***************************************************************************)
(* The exported operations.  Every input of a call is a parameter: the     *)
(* arguments, the values new Date() reads (t, t2) and the outcomes of the  *)
(* random draws (rs, ri).                                                  *)
(***************************************************************************)
UpsertWallet(f, net, h, t, t2) ==
    LET r == addWalletToList(registry, f, net, h, t, t2) IN
    /\ registry' = r.registry
    /\ last' = [NoCall EXCEPT !.op = "upsertWallet", !.f = f, !.h = h,
                              !.threw = r.threw]
    /\ UNCHANGED <<blobs, pending>>

RemoveWallet(f) ==
    LET r == removeWalletFromList(registry, blobs, f) IN
    /\ registry' = r.registry
    /\ blobs' = r.blobs
    /\ last' = [NoCall EXCEPT !.op = "removeWallet", !.f = f, !.threw = r.threw]
    /\ UNCHANGED pending

\* storeMnemonic awaited by its caller: from the call to the settled promise.
StoreMnemonic(f, m, p, rs, ri) ==
    LET r == storeMnemonic(registry, blobs, f, Encrypted(m, p, rs, ri)) IN
    /\ registry' = r.registry
    /\ blobs' = r.blobs
    /\ last' = [NoCall EXCEPT !.op = "storeMnemonic", !.f = f, !.m = m, !.p = p,
                              !.threw = r.threw]
    /\ UNCHANGED pending

\* retrieveMnemonic discarding a blob it cannot decrypt
RetrieveMnemonic_DropOnFailure(f, p) ==
    LET r == retrieveMnemonic(blobs, f, p) IN
    /\ last' = [NoCall EXCEPT !.op = "retrieveMnemonic", !.f = f, !.p = p,
                              !.threw = r.threw, !.ret = r.ret]
    /\ blobs' = IF r.ret = JsNull THEN [blobs EXCEPT ![f] = AbsentItem] ELSE blobs
    /\ UNCHANGED <<registry, pending>>

RetrieveMnemonic(f, p) ==
    LET r == retrieveMnemonic(blobs, f, p) IN
    /\ last' = [NoCall EXCEPT !.op = "retrieveMnemonic", !.f = f, !.p = p,
                              !.threw = r.threw, !.ret = r.ret]
    /\ UNCHANGED <<registry, blobs, pending>>

HasMnemonicStored(f) ==
    /\ last' = [NoCall EXCEPT !.op = "hasMnemonicStored", !.f = f,
                              !.ret = JsBool(hasMnemonicStored(blobs, f))]
    /\ UNCHANGED <<registry, blobs, pending>>

ListWallets ==
    /\ last' = [NoCall EXCEPT !.op = "listWallets", !.ret = getStoredWallets(registry)]
    /\ UNCHANGED <<registry, blobs, pending>>

ClearAll ==
    LET r == clearAllWalletData(registry, blobs) IN
    /\ registry' = r.registry
    /\ blobs' = r.blobs
    /\ last' = [NoCall EXCEPT !.op = "clearAll", !.threw = r.threw]
    /\ UNCHANGED pending

\* others: what else localStorage holds when getStorageInfo is called
StorageUsage(others) ==
    LET r == getStorageInfo(registry, blobs, others) IN
    /\ last' = [NoCall EXCEPT !.op = "storageUsage", !.threw = r.threw, !.ret = r.ret]
    /\ UNCHANGED <<registry, blobs, pending>>

(***************************************************************************)
(* Spec: one caller that awaits every call, starting from an empty store.  *)
(* The registry inputs are varied in full; the secret is fixed.            *)
(***************************************************************************)
Next ==
    \/ \E f \in Filenames, net \in Networks, h \in BOOLEAN, t \in Times, t2 \in Times :
           UpsertWallet(f, net, h, t, t2)
    \/ \E f \in Filenames : RemoveWallet(f)
    \/ \E f \in Filenames : StoreMnemonic(f, Zoo, Pw, 1, 1)
    \/ \E f \in Filenames, p \in Passwords : RetrieveMnemonic(f, p)
    \/ \E f \in Filenames : HasMnemonicStored(f)
    \/ ListWallets
    \/ \E o \in OtherStores : StorageUsage(o)
    \/ ClearAll

Spec == Init /\ [][Next]_vars

(***************************************************************************)
(* SpecAsync: callers that do not await.  storeMnemonic is suspended at    *)
(* its only await, `await encrypt(...)`, before it touches the store, and  *)
(* other calls run until its promise resolves.                             *)
(***************************************************************************)
\* walletStorage.js:174-175: the call runs up to `await encrypt`
StoreMnemonicCall(f, m, p, rs, ri) ==
    /\ Cardinality(pending) < MaxPending
    /\ pending' = pending \cup {[f |-> f, m |-> m, p |-> p, rs |-> rs, ri |-> ri]}
    /\ last' = [NoCall EXCEPT !.op = "storeMnemonicCall", !.f = f, !.m = m, !.p = p]
    /\ UNCHANGED <<registry, blobs>>

StoreMnemonicResume(c) ==
    LET r == storeMnemonic(registry, blobs, c.f, Encrypted(c.m, c.p, c.rs, c.ri)) IN
    /\ pending' = pending \ {c}
    /\ registry' = r.registry
    /\ blobs' = r.blobs
    /\ last' = [NoCall EXCEPT !.op = "storeMnemonic", !.f = c.f, !.m = c.m,
                              !.p = c.p, !.threw = r.threw]

\* The promise of encrypt rejects (importKey, deriveKey or encrypt of
\* crypto.subtle failed): the call ends at line 175.
StoreMnemonicReject(c) ==
    LET r == storeMnemonicRejected(registry, blobs, c.f) IN
    /\ pending' = pending \ {c}
    /\ registry' = r.registry
    /\ blobs' = r.blobs
    /\ last' = [NoCall EXCEPT !.op = "storeMnemonic", !.f = c.f, !.m = c.m,
                              !.p = c.p, !.threw = TRUE, !.store = "crypto"]

\* The clock is fixed here: what varies is the order of the steps.
AsyncNext ==
    \/ \E f \in Filenames, net \in Networks, h \in BOOLEAN :
           UpsertWallet(f, net, h, AsyncTime, AsyncTime)
    \/ \E f \in Filenames : RemoveWallet(f)
    \/ \E f \in Filenames : StoreMnemonicCall(f, Zoo, Pw, 1, 1)
    \/ \E c \in pending : StoreMnemonicResume(c)
    \/ \E c \in pending : StoreMnemonicReject(c)
    \/ \E f \in Filenames, p \in Passwords : RetrieveMnemonic(f, p)
    \/ \E f \in Filenames : HasMnemonicStored(f)
    \/ ListWallets
    \/ StorageUsage({})
    \/ ClearAll

SpecAsync == Init /\ [][AsyncNext]_vars

(***************************************************************************)
(* Writes to the store from outside this module.  The store is             *)
(* localStorage, which every script of the origin and the user can write:  *)
(* a valid blob has one character or one decoded byte changed or is cut    *)
(* short, and the registry value is replaced by text that is not a         *)
(* serialized array.                                                       *)
(***************************************************************************)
ValidBlob(f) == blobs[f].t = "text" /\ blobs[f].a \in EncryptedTexts

\* what a character c of the encoded text is replaced by: the next base64
\* digit, "=", "!" and " "
Replacements(c) ==
    LET v == IF IsB64Char(c) THEN B64Val(c) ELSE 63
    IN  {B64Char((v + 1) % 64), 61, 33, 32} \ {c}

TamperChar(f, i, c) ==
    /\ ValidBlob(f)
    /\ i \in 1..Len(blobs[f].a)
    /\ c \in Replacements(blobs[f].a[i])
    /\ blobs' = [blobs EXCEPT ![f] = TextItem([@.a EXCEPT ![i] = c])]
    /\ last' = [NoCall EXCEPT !.op = "tamperChar", !.f = f]
    /\ UNCHANGED <<registry, pending>>

TamperByte(f, i, d) ==
    /\ ValidBlob(f)
    /\ LET combined == Atob(blobs[f].a).v IN
       /\ i \in 1..Len(combined)
       /\ blobs' = [blobs EXCEPT
                       ![f] = TextItem(Btoa([combined EXCEPT ![i] = (@ + d) % 256]))]
    /\ last' = [NoCall EXCEPT !.op = "tamperByte", !.f = f]
    /\ UNCHANGED <<registry, pending>>

Truncate(f, n) ==
    /\ ValidBlob(f)
    /\ LET combined == Atob(blobs[f].a).v IN
       /\ n < Len(combined)
       /\ blobs' = [blobs EXCEPT ![f] = TextItem(Btoa(Slice(combined, 0, n)))]
    /\ last' = [NoCall EXCEPT !.op = "truncate", !.f = f]
    /\ UNCHANGED <<registry, pending>>

CorruptRegistry(t) ==
    /\ registry' = [t |-> t, a |-> << >>]
    /\ last' = [NoCall EXCEPT !.op = "corruptRegistry"]
    /\ UNCHANGED <<blobs, pending>>

(***************************************************************************)
(* SpecCorrupt: the calls of Spec, and the registry value overwritten from *)
(* outside.                                                                *)
(***************************************************************************)
CorruptNext ==
    \/ Next
    \/ \E t \in {"empty", "garbage"} \cup NonArrayJson : CorruptRegistry(t)

SpecCorrupt == Init /\ [][CorruptNext]_vars

(***************************************************************************)
(* SpecTamper: the secret of one wallet, with the mnemonics, passwords and *)
(* random outcomes varied in full, and its blob tampered with.             *)
(***************************************************************************)
TamperFilenames == {"w1"}

\* the text and the decoded length of the blob of f (0 if there is none)
TextLen(f) == Len(blobs[f].a)
DecodedLen(f) == Len(Atob(blobs[f].a).v)

TamperNext ==
    \/ \E f \in TamperFilenames, m \in Mnemonics, p \in Passwords, rs \in Rands, ri \in Rands :
           StoreMnemonic(f, m, p, rs, ri)
    \/ \E f \in TamperFilenames, p \in Passwords : RetrieveMnemonic(f, p)
    \/ \E f \in TamperFilenames : HasMnemonicStored(f)
    \/ \E f \in TamperFilenames : RemoveWallet(f)
    \/ \E f \in TamperFilenames : ValidBlob(f) /\ \E i \in 1..TextLen(f) :
           \E c \in Replacements(blobs[f].a[i]) : TamperChar(f, i, c)
    \/ \E f \in TamperFilenames : ValidBlob(f) /\ \E i \in 1..DecodedLen(f), d \in {1, 128} :
           TamperByte(f, i, d)
    \/ \E f \in TamperFilenames : ValidBlob(f) /\ \E n \in 0..DecodedLen(f) :
           Truncate(f, n)

SpecTamper == Init /\ [][TamperNext]_vars

(***************************************************************************)
(* SpecSecrets: one wallet that is registered, stored to, read and         *)
(* removed, with the mnemonics and passwords varied in full and each       *)
(* random draw of encrypt one of MaxDraw outcomes.                         *)
(***************************************************************************)
SecretsNext ==
    \/ \E f \in TamperFilenames, t \in Times : UpsertWallet(f, "testnet-10", FALSE, t, t)
    \/ \E f \in TamperFilenames, m \in Mnemonics, p \in Passwords, rs \in Draws, ri \in Draws :
           StoreMnemonic(f, m, p, rs, ri)
    \/ \E f \in TamperFilenames, p \in Passwords : RetrieveMnemonic(f, p)
    \/ \E f \in TamperFilenames : HasMnemonicStored(f)
    \/ \E f \in TamperFilenames : RemoveWallet(f)

SpecSecrets == Init /\ [][SecretsNext]_vars

(***************************************************************************)
(* Calls during which localStorage fails.  setItem throws                  *)
(* QuotaExceededError when the store is full; getItem throws when the      *)
(* store is not available.  What each function does then follows from      *)
(* where it has a try block: getStoredWallets (113-119) and                *)
(* retrieveMnemonic (194-200) have one around their getItem, the others    *)
(* have none.                                                              *)
(***************************************************************************)
\* addWalletToList: the setItem of line 151 throws; nothing is written.
UpsertWalletQuota(f, net, h, t, t2) ==
    /\ last' = [NoCall EXCEPT !.op = "upsertWallet", !.f = f, !.h = h,
                              !.threw = TRUE, !.store = "quota"]
    /\ UNCHANGED <<registry, blobs, pending>>

\* removeWalletFromList: the setItem of line 161 throws; the removeItem of
\* line 164 is not reached.
RemoveWalletQuota(f) ==
    /\ last' = [NoCall EXCEPT !.op = "removeWallet", !.f = f,
                              !.threw = TRUE, !.store = "quota"]
    /\ UNCHANGED <<registry, blobs, pending>>

\* storeMnemonic: the setItem of the blob (line 176) throws; nothing is
\* written and the promise rejects.
StoreMnemonicQuotaBlob(f, m, p) ==
    /\ last' = [NoCall EXCEPT !.op = "storeMnemonic", !.f = f, !.m = m, !.p = p,
                              !.threw = TRUE, !.store = "quota"]
    /\ UNCHANGED <<registry, blobs, pending>>

\* storeMnemonic: the blob is written, the record is found, and the setItem
\* of the registry (line 183) throws; the promise rejects with the blob
\* persisted and the registry as it was.
StoreMnemonicQuotaList(f, m, p, rs, ri) ==
    /\ getStoredWallets(registry).t = "array"
    /\ FindIndex(getStoredWallets(registry).a, f) # 0
    /\ blobs' = [blobs EXCEPT ![f] = TextItem(Encrypted(m, p, rs, ri))]
    /\ last' = [NoCall EXCEPT !.op = "storeMnemonic", !.f = f, !.m = m, !.p = p,
                              !.threw = TRUE, !.store = "quota"]
    /\ UNCHANGED <<registry, pending>>

\* getStoredWallets: the getItem of line 114 throws inside the try block;
\* the catch returns [].
ListWalletsUnavailable ==
    /\ last' = [NoCall EXCEPT !.op = "listWallets", !.ret = JsArray(<< >>),
                              !.store = "unavailable"]
    /\ UNCHANGED <<registry, blobs, pending>>

\* retrieveMnemonic: the getItem of line 195 throws inside the try block;
\* the catch returns null.
RetrieveMnemonicUnavailable(f, p) ==
    /\ last' = [NoCall EXCEPT !.op = "retrieveMnemonic", !.f = f, !.p = p,
                              !.ret = JsNull, !.store = "unavailable"]
    /\ UNCHANGED <<registry, blobs, pending>>

\* hasMnemonicStored: the getItem of line 209 throws; there is no try block.
HasMnemonicStoredUnavailable(f) ==
    /\ last' = [NoCall EXCEPT !.op = "hasMnemonicStored", !.f = f,
                              !.threw = TRUE, !.store = "unavailable"]
    /\ UNCHANGED <<registry, blobs, pending>>

(***************************************************************************)
(* SpecStore: the calls of Spec, each of which may meet a failing store.   *)
(***************************************************************************)
StoreNext ==
    \/ Next
    \/ \E f \in Filenames, net \in Networks, h \in BOOLEAN, t \in Times, t2 \in Times :
           UpsertWalletQuota(f, net, h, t, t2)
    \/ \E f \in Filenames : RemoveWalletQuota(f)
    \/ \E f \in Filenames : StoreMnemonicQuotaBlob(f, Zoo, Pw)
    \/ \E f \in Filenames : StoreMnemonicQuotaList(f, Zoo, Pw, 1, 1)
    \/ ListWalletsUnavailable
    \/ \E f \in Filenames, p \in Passwords : RetrieveMnemonicUnavailable(f, p)
    \/ \E f \in Filenames : HasMnemonicStoredUnavailable(f)

SpecStore == Init /\ [][StoreNext]_vars

(***************************************************************************)
(* SpecTabs: two tabs of one browser profile share localStorage, which has *)
(* no lock across tabs, so the accesses of one tab's call interleave with  *)
(* the other tab's.  A call that updates the registry is two steps: up to  *)
(* its getStoredWallets, and from there to its return.  pending holds, per *)
(* tab, the call between the two steps (read is the registry text it got)  *)
(* or the last call it completed (done).  Each tab works on its own        *)
(* wallet.                                                                 *)
(***************************************************************************)
Tabs == {"tab1", "tab2"}

TabFile(tab) == IF tab = "tab1" THEN "w1" ELSE "w2"

TabOps == {"upsertWallet", "removeWallet", "storeMnemonic"}

\* walletStorage.js:129, 159, 176-179: the call up to its read of the
\* registry; storeMnemonic has persisted the blob by then.
TabRead(tab, op, h) ==
    LET f == TabFile(tab) IN
    /\ \A c \in pending : c.tab = tab => c.done
    /\ pending' = {c \in pending : c.tab # tab}
                      \cup {[tab |-> tab, op |-> op, f |-> f, h |-> h,
                             read |-> registry, done |-> FALSE]}
    /\ blobs' = IF op = "storeMnemonic"
                THEN [blobs EXCEPT ![f] = TextItem(Encrypted(Zoo, Pw, 1, 1))]
                ELSE blobs
    /\ UNCHANGED <<registry, last>>

\* a write-back that reads the registry again at the time it writes
TabWriteBack_Reread(c, reg, bl) ==
    IF c.op = "upsertWallet"
    THEN [registry |-> addWalletToList(reg, c.f, "mainnet", c.h,
                                       AsyncTime, AsyncTime).registry,
          blobs |-> bl]
    ELSE IF c.op = "removeWallet"
    THEN [registry |-> removeWalletFromList(reg, bl, c.f).registry,
          blobs |-> [bl EXCEPT ![c.f] = AbsentItem]]
    ELSE [registry |-> storeMnemonic(reg, bl, c.f, bl[c.f].a).registry,
          blobs |-> bl]

\* walletStorage.js:132-151, 160-164, 180-184: the rest of the call, computed
\* from the registry text it has read (c.read); reg and bl are the store at
\* the time of the write.  storeMnemonic writes the registry only if it has
\* found a record (line 181), removeWalletFromList removes the blob after
\* its setItem.
TabWriteBack(c, reg, bl) ==
    IF c.op = "upsertWallet"
    THEN [registry |-> addWalletToList(c.read, c.f, "mainnet", c.h,
                                       AsyncTime, AsyncTime).registry,
          blobs |-> bl]
    ELSE IF c.op = "removeWallet"
    THEN [registry |-> removeWalletFromList(c.read, bl, c.f).registry,
          blobs |-> [bl EXCEPT ![c.f] = AbsentItem]]
    ELSE [registry |-> IF FindIndex(getStoredWallets(c.read).a, c.f) # 0
                       THEN storeMnemonic(c.read, bl, c.f, bl[c.f].a).registry
                       ELSE reg,
          blobs |-> bl]

TabWrite(c) ==
    LET r == TabWriteBack(c, registry, blobs) IN
    /\ ~c.done
    /\ pending' = (pending \ {c}) \cup {[c EXCEPT !.done = TRUE]}
    /\ registry' = r.registry
    /\ blobs' = r.blobs
    /\ last' = [NoCall EXCEPT !.op = c.op, !.f = c.f, !.h = c.h]

TabsNext ==
    \/ \E tab \in Tabs, op \in TabOps, h \in BOOLEAN : TabRead(tab, op, h)
    \/ \E c \in pending : TabWrite(c)

SpecTabs == Init /\ [][TabsNext]_vars

(***************************************************************************)
(* SpecIsolation: three wallets and the three calls that write, so that a  *)
(* call on one wallet has two others, in either order, to leave alone.     *)
(***************************************************************************)
IsolationFilenames == Filenames \cup {"w3"}

InitIsolation ==
    /\ registry = AbsentItem
    /\ blobs = [f \in IsolationFilenames |-> AbsentItem]
    /\ pending = {}
    /\ last = NoCall

IsolationNext ==
    \/ \E f \in IsolationFilenames, net \in Networks, h \in BOOLEAN :
           UpsertWallet(f, net, h, AsyncTime, AsyncTime)
    \/ \E f \in IsolationFilenames : StoreMnemonic(f, Zoo, Pw, 1, 1)
    \/ \E f \in IsolationFilenames : RemoveWallet(f)

SpecIsolation == InitIsolation /\ [][IsolationNext]_vars

(***************************************************************************)
(* SpecModal: a wallet is registered with its network and shown its        *)
(* recovery phrase (handleFirstTimeSetup, part_004:792-796); the modal's   *)
(* 'Also Save Encrypted' button then stores the mnemonic.                  *)
(***************************************************************************)
\* part_004:928-940, saveBtn.onclick: storeMnemonic, then
\* addWalletToList(walletName, null, true); an exception of either is caught
\* and logged.
SaveEncrypted(f, m, p, rs, ri, t, t2) ==
    LET s == storeMnemonic(registry, blobs, f, Encrypted(m, p, rs, ri))
        r == addWalletToList(s.registry, f, NullNetwork, TRUE, t, t2)
    IN  /\ registry' = IF s.threw THEN s.registry ELSE r.registry
        /\ blobs' = s.blobs
        /\ last' = [NoCall EXCEPT !.op = "saveEncrypted", !.f = f, !.m = m, !.p = p]
        /\ UNCHANGED pending

ModalNext ==
    \/ \E f \in Filenames, net \in Networks, t \in Times, t2 \in Times :
           UpsertWallet(f, net, FALSE, t, t2)
    \/ \E f \in Filenames, t \in Times, t2 \in Times :
           SaveEncrypted(f, Zoo, Pw, 1, 1, t, t2)
    \/ \E f \in Filenames : RemoveWallet(f)
    \/ ListWallets

SpecModal == Init /\ [][ModalNext]_vars

(***************************************************************************)
(* Properties.                                                             *)
(***************************************************************************)
\* the records listWallets returns, whatever the registry value is
Records(reg) == getStoredWallets(reg).a

HasRecord(reg, f) == \E i \in 1..Len(Records(reg)) : Records(reg)[i].filename = f

HasFlag(reg, f) ==
    \E i \in 1..Len(Records(reg)) :
        Records(reg)[i].filename = f /\ Records(reg)[i].hasMnemonic

FilenamesOf(reg) == [i \in 1..Len(Records(reg)) |-> Records(reg)[i].filename]

\* passwords tried against a blob: the stored ones, "", "pW" and "pw "
Guesses == Passwords \cup {<< >>, <<112, 87>>, <<112, 119, 32>>}

\* C1: in every state reached from the empty store by the calls, each
\* record's hasMnemonic is true exactly when a blob is persisted for its
\* filename.
C1_FlagIffBlob ==
    \A i \in 1..Len(Records(registry)) :
        Records(registry)[i].hasMnemonic
            <=> hasMnemonicStored(blobs, Records(registry)[i].filename)

\* C2: when removeWallet(f) has returned, the registry has no record of f
\* and no blob is persisted for f.
C2_RemoveWalletRemoves ==
    (last.op = "removeWallet" /\ ~last.threw)
        => /\ ~HasRecord(registry, last.f)
           /\ ~hasMnemonicStored(blobs, last.f)

\* removeWallet has returned while another wallet keeps its record and blob
C2_Witness ==
    /\ last.op = "removeWallet" /\ ~last.threw
    /\ \E g \in Filenames \ {last.f} : HasRecord(registry, g) /\ hasMnemonicStored(blobs, g)

\* C3: retrieveMnemonic never throws; it returns null when there is no blob
\* and when decrypt fails (wrong password, tampered, truncated or malformed
\* blob), with the same value for every cause, and a string otherwise.
C3_RetrieveNeverThrows ==
    last.op = "retrieveMnemonic"
        => /\ ~last.threw
           /\ last.ret.t \in {"null", "string"}
           /\ (~hasMnemonicStored(blobs, last.f) => last.ret = JsNull)
           /\ (hasMnemonicStored(blobs, last.f) /\ ~decrypt(blobs[last.f].a, last.p).ok
                   => last.ret = JsNull)

\* retrieveMnemonic has returned null on a blob that atob rejects
C3_Witness ==
    /\ last.op = "retrieveMnemonic"
    /\ hasMnemonicStored(blobs, last.f)
    /\ blobs[last.f].a # << >>
    /\ ~Atob(blobs[last.f].a).ok
    /\ last.ret = JsNull

\* C4: when storeMnemonic(f, m, p) has completed, decrypt of the stored blob
\* with p returns exactly m, and so does retrieveMnemonic(f, p).
C4_RoundTrip ==
    (last.op = "storeMnemonic" /\ ~last.threw)
        => /\ decrypt(blobs[last.f].a, last.p) = [ok |-> TRUE, err |-> "", v |-> last.m]
           /\ retrieveMnemonic(blobs, last.f, last.p)
                  = [threw |-> FALSE, ret |-> JsString(last.m)]

C7_FlagMonotone ==
    [][\A f \in Filenames :
          HasFlag(registry, f)
              => \/ HasFlag(registry', f)
                 \/ /\ ~HasRecord(registry', f)
                    /\ \/ (last'.op = "removeWallet" /\ last'.f = f)
                       \/ last'.op = "clearAll"]_vars

\* upsertWallet(f, net, false) has returned and the record of f has the flag
C7_Witness ==
    /\ last.op = "upsertWallet" /\ ~last.h /\ ~last.threw
    /\ HasFlag(registry, last.f)

C9_StoreMnemonicEffect ==
    [][\A f \in Filenames :
          (last'.op = "storeMnemonic" /\ last'.f = f /\ ~last'.threw)
              => /\ \E rs \in Rands, ri \in Rands :
                        blobs'[f] = TextItem(encrypt(last'.m, last'.p, rs, ri))
                 /\ FilenamesOf(registry') = FilenamesOf(registry)
                 /\ HasRecord(registry, f) => HasFlag(registry', f)
                 /\ ~HasRecord(registry, f) => registry' = registry]_vars

\* storeMnemonic has completed for a filename without a record while the
\* other wallet is registered
C9_Witness ==
    /\ last.op = "storeMnemonic" /\ ~last.threw
    /\ hasMnemonicStored(blobs, last.f)
    /\ ~HasRecord(registry, last.f)
    /\ Len(Records(registry)) = 1

\* C10: listWallets never throws and returns a list, the empty one when the
\* registry key is absent or its value is not a serialized array.
C10_ListAlwaysList ==
    last.op = "listWallets"
        => /\ ~last.threw
           /\ last.ret.t = "array"
           /\ (registry.t # "array" => last.ret = JsArray(<< >>))

\* C11: when clearAll has returned, listWallets returns [] and no blob is
\* persisted for any filename, a filename without a record included.
C11_ClearAllClears ==
    (last.op = "clearAll" /\ ~last.threw)
        => /\ getStoredWallets(registry) = JsArray(<< >>)
           /\ \A f \in Filenames : blobs[f] = AbsentItem

\* C12: no two records of the registry have the same filename.
C12_FilenamesUnique ==
    \A i, j \in 1..Len(Records(registry)) :
        Records(registry)[i].filename = Records(registry)[j].filename => i = j

\* upsertWallet has returned for the filename of the first of two records
C12_Witness ==
    /\ last.op = "upsertWallet" /\ ~last.threw
    /\ Len(Records(registry)) = 2
    /\ Records(registry)[1].filename = last.f

\* C13: upsertWallet(f, net, h) on a filename with a record sets the
\* record's network to net and its lastUsed to the time read, and leaves
\* its createdAt, its filename, its position and the number of records
\* unchanged.  (With a record of f the second time read is not used, so
\* every such call is an UpsertWallet(f, net, h, t, t).)
C13_UpsertUpdates ==
    [][\A f \in Filenames, h \in BOOLEAN :
          (last'.op = "upsertWallet" /\ last'.f = f /\ last'.h = h
              /\ HasRecord(registry, f))
              => \A net \in Networks, t \in Times :
                     UpsertWallet(f, net, h, t, t)
                         => /\ ~last'.threw
                            /\ Len(Records(registry')) = Len(Records(registry))
                            /\ \A i \in 1..Len(Records(registry)) :
                                   Records(registry)[i].filename = f
                                       => /\ Records(registry')[i].filename = f
                                          /\ Records(registry')[i].network = net
                                          /\ Records(registry')[i].lastUsed = t
                                          /\ Records(registry')[i].createdAt
                                                 = Records(registry)[i].createdAt]_vars

\* upsertWallet has returned for the first of two records, which now has a
\* lastUsed later than its createdAt
C13_Witness ==
    /\ last.op = "upsertWallet" /\ ~last.threw
    /\ Len(Records(registry)) = 2
    /\ Records(registry)[1].filename = last.f
    /\ Records(registry)[1].createdAt = "2026-01-01T00:00:00.000Z"
    /\ Records(registry)[1].lastUsed = "2026-01-01T00:00:00.001Z"

\* C14: upsertWallet(f, net, h) on a filename without a record appends one
\* record with filename f, network net, hasMnemonic h and createdAt equal to
\* lastUsed, after the records there were.
C14_InsertAppends ==
    [][\A f \in Filenames, h \in BOOLEAN :
          (last'.op = "upsertWallet" /\ last'.f = f /\ last'.h = h
              /\ ~HasRecord(registry, f))
              => \A net \in Networks, t \in Times, t2 \in Times :
                     UpsertWallet(f, net, h, t, t2)
                         => LET n == Len(Records(registry)) IN
                            /\ ~last'.threw
                            /\ Len(Records(registry')) = n + 1
                            /\ SubSeq(Records(registry'), 1, n) = Records(registry)
                            /\ Records(registry')[n + 1].filename = f
                            /\ Records(registry')[n + 1].network = net
                            /\ Records(registry')[n + 1].hasMnemonic = h
                            /\ Records(registry')[n + 1].createdAt
                                   = Records(registry')[n + 1].lastUsed]_vars

\* C15: decrypt of a text that is not base64, or that decodes to fewer than
\* SALT_LENGTH + IV_LENGTH = 28 bytes, fails at the decoding step, before
\* deriveKey and the AES-GCM decryption are called.
C15_DecodeFailureFirst ==
    \A f \in Filenames :
        (/\ blobs[f].t = "text"
         /\ \/ ~Atob(blobs[f].a).ok
            \/ Len(Atob(blobs[f].a).v) < SALT_LENGTH + IV_LENGTH)
            => \A p \in Passwords :
                   /\ ~decrypt(blobs[f].a, p).ok
                   /\ decrypt(blobs[f].a, p).err = "atob"

\* C16: for a wallet f with a record, a completed storeMnemonic(f, m, p)
\* leaves a blob for f; every retrieveMnemonic(f, q) leaves the store as it
\* was, returns null when q is not the password the blob was encrypted
\* with, and returns m when it is, however many retrievals failed before;
\* a returned removeWallet(f) leaves no blob for f.
C16_FailedRetrievalHarmless ==
    [][\A f \in Filenames :
          /\ (last'.op = "storeMnemonic" /\ last'.f = f /\ ~last'.threw)
                 => blobs'[f].t # "absent"
          /\ (last'.op = "retrieveMnemonic" /\ last'.f = f /\ HasRecord(registry, f))
                 => /\ blobs' = blobs
                    /\ registry' = registry
                    /\ \A m \in Mnemonics, p \in Passwords, rs \in Draws, ri \in Draws :
                           blobs[f] = TextItem(Encrypted(m, p, rs, ri))
                               => last'.ret = IF last'.p = p THEN JsString(m) ELSE JsNull
          /\ (last'.op = "removeWallet" /\ last'.f = f /\ ~last'.threw)
                 => blobs'[f] = AbsentItem]_vars

\* the salt and the IV a blob starts with
NonceOf(item) == Slice(Atob(item.a).v, 0, SALT_LENGTH + IV_LENGTH)

C18_StoreFailuresPropagate ==
    (last.store # "ok" /\ last.op # "listWallets") => last.threw

\* C19: on a registry value that is not a serialized array (the empty
\* string, text that is not JSON, or JSON null, a number or an object),
\* upsertWallet, removeWallet, storeMnemonic, clearAll and storageUsage do
\* not throw and do what they do on an empty registry.
C19_CorruptRegistryAsEmpty ==
    [][(/\ registry.t \in {"empty", "garbage"} \cup NonArrayJson
        /\ last'.op \in {"upsertWallet", "removeWallet", "storeMnemonic",
                         "clearAll", "storageUsage"})
           => /\ ~last'.threw
              /\ last'.op = "upsertWallet" => FilenamesOf(registry') = <<last'.f>>
              /\ last'.op = "removeWallet"
                     => registry' = JsonStringify(<< >>) /\ blobs'[last'.f] = AbsentItem
              /\ last'.op = "storeMnemonic"
                     => registry' = registry /\ blobs'[last'.f].t = "text"
              /\ last'.op = "clearAll" => registry' = AbsentItem /\ blobs' = blobs
              /\ last'.op = "storageUsage"
                     => last'.ret.t = "info" /\ Head(last'.ret.a) = 0]_vars

\* C20: hasMnemonicStored(f) returns true exactly when a value is persisted
\* under the mnemonic key of f, whether or not any password decrypts it;
\* when it returns false, retrieveMnemonic(f, p) returns null for every p.
C20_PresenceCheckOnly ==
    last.op = "hasMnemonicStored"
        => /\ ~last.threw
           /\ last.ret = JsBool(blobs[last.f] # AbsentItem)
           /\ last.ret = JsBool(FALSE)
                  => \A p \in Guesses :
                         retrieveMnemonic(blobs, last.f, p)
                             = [threw |-> FALSE, ret |-> JsNull]

\* hasMnemonicStored has returned true for a blob that no password decrypts
C20_Witness ==
    /\ last.op = "hasMnemonicStored"
    /\ last.ret = JsBool(TRUE)
    /\ blobs[last.f].t = "text"
    /\ \A p \in Passwords : ~decrypt(blobs[last.f].a, p).ok

\* C21, as claimed: storageUsage reports the number of records listWallets
\* returns, and a size that sums the registry value and the blobs and
\* nothing else the store holds.
C21_OwnKeysOnly ==
    [][(last'.op = "storageUsage" /\ ~last'.threw)
           => \A o \in OtherStores :
                  StorageUsage(o)
                      => last'.ret
                             = JsInfo(<<Len(Records(registry))>>,
                                      FormatSize(2 * TotalLength(
                                          StoreItems(registry, blobs, {}))))]_vars

\* C21, amended: storageUsage reports the number of records listWallets
\* returns, and a size that sums, at two bytes per code unit, the registry
\* value, the blobs and the value of every other key that starts with
\* 'kaspa_'; keys without that prefix are not counted.
C21_KaspaPrefixedKeys ==
    [][(last'.op = "storageUsage" /\ ~last'.threw)
           => \A o \in OtherStores :
                  StorageUsage(o)
                      => last'.ret
                             = JsInfo(<<Len(Records(registry))>>,
                                      FormatSize(2 * (TotalLength(
                                          StoreItems(registry, blobs, {}))
                                        + TotalLength(
                                          {x \in o : x.key.prefix = "kaspa_"}))))]_vars

\* storageUsage has reported two wallets, both with a blob, and a size in KB
C21_Witness ==
    /\ last.op = "storageUsage" /\ ~last.threw
    /\ last.ret.a[1] = 2
    /\ last.ret.a[2] = 1024
    /\ \A f \in Filenames : blobs[f] # AbsentItem

\* C22: a storeMnemonic call has not modified the store when it is suspended
\* in encrypt, and when it fails there (key derivation or encryption rejects)
\* neither the registry nor any blob has been modified.
C22_EncryptFailureLeavesStore ==
    [][(\/ last'.op = "storeMnemonicCall"
        \/ (last'.op = "storeMnemonic" /\ last'.store = "crypto"))
           => (registry' = registry /\ blobs' = blobs)]_vars

\* storeMnemonic has failed in encrypt for a registered wallet: no flag, no
\* blob
C22_Witness ==
    /\ last.op = "storeMnemonic" /\ last.threw /\ last.store = "crypto"
    /\ HasRecord(registry, last.f)
    /\ ~HasFlag(registry, last.f)
    /\ blobs[last.f] = AbsentItem

\* the record(s) a registry text holds for a filename
RecordsOf(reg, f) ==
    {Records(reg)[i] : i \in {j \in 1..Len(Records(reg)) : Records(reg)[j].filename = f}}

\* C23: the registry read-modify-write is not safe against a second writer.
\* Every write-back of a call puts the other wallets' records back to what
\* the call read, whatever another writer has completed since (so an update
\* completed in between is lost); C23_Witness is such a loss.
C23_WriteBackOfSnapshot ==
    [][\A c \in pending :
           (/\ ~c.done
            /\ [c EXCEPT !.done = TRUE] \in pending'
            /\ (c.op = "storeMnemonic" => HasRecord(c.read, c.f)))
               => \A g \in Filenames \ {c.f} :
                      RecordsOf(registry', g) = RecordsOf(c.read, g)]_vars

\* tab1 has completed upsertWallet('w1') and never removes it afterwards, tab2
\* (which only works on 'w2') has completed a call, and the registry has no
\* record of 'w1': tab2 wrote back a registry it had read before tab1's write
C23_Witness ==
    /\ \E c \in pending : c.tab = "tab1" /\ c.done /\ c.op = "upsertWallet"
    /\ \E d \in pending : d.tab = "tab2" /\ d.done
    /\ ~HasRecord(registry, "w1")
    /\ HasRecord(registry, "w2")

\* C24: within one process no registry update is lost, however the awaited
\* calls interleave.  Every completed upsertWallet, removeWallet or
\* storeMnemonic on f, whatever calls are suspended in encrypt at that time,
\* leaves the record of every other filename as it is and has its own effect
\* in the registry: the record of f exists after upsertWallet (flagged if h),
\* is gone after removeWallet, and is flagged after storeMnemonic if f is
\* registered.
C24_NoLostUpdateInProcess ==
    [][(last'.op \in {"upsertWallet", "removeWallet", "storeMnemonic"} /\ ~last'.threw)
           => /\ \A g \in Filenames \ {last'.f} :
                     RecordsOf(registry', g) = RecordsOf(registry, g)
              /\ last'.op = "upsertWallet"
                     => /\ HasRecord(registry', last'.f)
                        /\ last'.h => HasFlag(registry', last'.f)
              /\ last'.op = "removeWallet" => ~HasRecord(registry', last'.f)
              /\ (last'.op = "storeMnemonic" /\ HasRecord(registry, last'.f))
                     => HasFlag(registry', last'.f)]_vars

\* storeMnemonic('w2') has completed while storeMnemonic('w1') is suspended in
\* encrypt: 'w2' is flagged and the record of 'w1' is still there
C24_Witness ==
    /\ \E c \in pending : c.f = "w1"
    /\ last.op = "storeMnemonic" /\ last.f = "w2" /\ ~last.threw
    /\ HasFlag(registry, "w2")
    /\ HasRecord(registry, "w1") /\ ~HasFlag(registry, "w1")

\* C25: once removeWallet(f) has returned, a storeMnemonic(f, ...) that was
\* invoked before the removal does not re-create the blob of f.  Stated for
\* the step right after the removal: a storeMnemonic(f) that completes then
\* was invoked before it (an invocation in between would be the last call).
C25_NoBlobAfterRemoval ==
    [][\A f \in Filenames :
           (/\ last.op = "removeWallet" /\ last.f = f /\ ~last.threw
            /\ last'.op = "storeMnemonic" /\ last'.f = f)
               => blobs'[f] = AbsentItem]_vars

\* C26: a completed storeMnemonic(f, m2, p2) over a blob that an earlier call
\* encrypted with another password p1 replaces it: the one value under the
\* key of f is the new blob, retrieveMnemonic(f, p2) returns m2 and
\* retrieveMnemonic(f, p1) returns null.
C26_StoreOverwrites ==
    [][\A f \in Filenames :
           (last'.op = "storeMnemonic" /\ last'.f = f /\ ~last'.threw)
               => \A m1 \in Mnemonics, p1 \in Passwords \ {last'.p}, rs \in Draws, ri \in Draws :
                      blobs[f] = TextItem(Encrypted(m1, p1, rs, ri))
                          => /\ blobs'[f].t = "text"
                             /\ blobs'[f] # blobs[f]
                             /\ retrieveMnemonic(blobs', f, last'.p)
                                    = [threw |-> FALSE, ret |-> JsString(last'.m)]
                             /\ retrieveMnemonic(blobs', f, p1)
                                    = [threw |-> FALSE, ret |-> JsNull]]_vars

\* the records of the filenames other than f, in registry order
OtherRecords(reg, f) == SelectSeq(Records(reg), LAMBDA w : w.filename # f)

\* C27: upsertWallet(f, ...), storeMnemonic(f, ...) and removeWallet(f) leave
\* the record and the blob of every other filename unchanged and keep the
\* other records in their order.
C27_PerWalletIsolation ==
    [][\A f \in IsolationFilenames :
           (last'.op \in {"upsertWallet", "storeMnemonic", "removeWallet"} /\ last'.f = f)
               => /\ OtherRecords(registry', f) = OtherRecords(registry, f)
                  /\ \A g \in IsolationFilenames \ {f} : blobs'[g] = blobs[g]]_vars

\* removeWallet('w2') has returned with 'w3' and 'w1' left, in that order,
\* both with their blobs
C27_Witness ==
    /\ last.op = "removeWallet" /\ last.f = "w2"
    /\ FilenamesOf(registry) = <<"w3", "w1">>
    /\ blobs["w1"] # AbsentItem /\ blobs["w3"] # AbsentItem
    /\ HasFlag(registry, "w1") /\ HasFlag(registry, "w3")

\* C28: listWallets, hasMnemonicStored, retrieveMnemonic (returning the
\* mnemonic or null) and storageUsage leave every key and value of the store
\* as it was, also when the registry is corrupt.
C28_QueriesWriteNothing ==
    [][last'.op \in {"listWallets", "hasMnemonicStored", "retrieveMnemonic", "storageUsage"}
           => (registry' = registry /\ blobs' = blobs)]_vars

\* retrieveMnemonic has returned null for a flagged wallet whose blob is
\* still stored
C28_Witness ==
    /\ last.op = "retrieveMnemonic" /\ last.ret = JsNull
    /\ HasFlag(registry, last.f)
    /\ blobs[last.f].t = "text"

\* the network the registry records for a filename
NetworksOf(reg, f) == {w.network : w \in RecordsOf(reg, f)}

\* C29: saving the encrypted mnemonic from the recovery-phrase modal adds the
\* blob and sets hasMnemonic, and the network recorded for the wallet is the
\* same after the save as before it.
C29_SaveKeepsNetwork ==
    [][\A f \in Filenames :
           (last'.op = "saveEncrypted" /\ last'.f = f /\ HasRecord(registry, f))
               => /\ blobs'[f].t = "text"
                  /\ HasFlag(registry', f)
                  /\ NetworksOf(registry', f) = NetworksOf(registry, f)]_vars

\* C30: the blob a completed storeMnemonic(f, m, p) has stored decodes to
\* salt (bytes 0..15) || IV (bytes 16..27) || ciphertext and tag, of length
\* 28 + (UTF-8 length of m) + 16, at least 44; the rest decrypts under the
\* key derived from p and the first 16 bytes with the next 12 as IV, which
\* are the offsets decrypt uses; the blob is not the empty string and
\* retrieveMnemonic(f, p) does not return null.
C30_BlobLayout ==
    (last.op = "storeMnemonic" /\ ~last.threw)
        => LET encoded == blobs[last.f].a
               decoded == Atob(encoded)
               n == Len(decoded.v)
               salt == Slice(decoded.v, 0, 16)
               iv == Slice(decoded.v, 16, 28)
               rest == Slice(decoded.v, 28, n)
           IN  /\ encoded # << >>
               /\ decoded.ok
               /\ n = 28 + Len(TextEncode(last.m)) + 16
               /\ n >= 44
               /\ \E rs \in Draws : salt = RandomBytes(rs, SALT_LENGTH)
               /\ \E ri \in Draws : iv = RandomBytes(ri, IV_LENGTH)
               /\ rest = GcmEncrypt(deriveKey(last.p, salt), iv, TextEncode(last.m))
               /\ decrypt(encoded, last.p).ok
               /\ retrieveMnemonic(blobs, last.f, last.p).ret # JsNull

\* storeMnemonic has stored the empty mnemonic: a blob of 44 bytes, 60
\* characters of base64
C30_Witness ==
    /\ last.op = "storeMnemonic" /\ ~last.threw /\ last.m = << >>
    /\ Len(Atob(blobs[last.f].a).v) = 44
    /\ Len(blobs[last.f].a) = 60

=============================================================================
